---------------------------- MODULE Spec2Model ----------------------------
(***************************************************************************)
(* Model of flamegraph_filter.cpp: the pipeline                            *)
(*   build_stack_map -> filter_stack -> shrink_to_stack_limit ->           *)
(*   write_filtered_stack_to_file                                          *)
(* driven by main.  A std::string is a sequence of one-character strings;  *)
(* positions are 0-based as in the source, size_t arithmetic wraps.        *)
(***************************************************************************)
EXTENDS Integers, Sequences, FiniteSets, TLC

(* ----------------------------- bounds ---------------------------------- *)

\* largest number of lines in the input file
MaxLines == 3

\* largest value given to --stack-limit
MaxStackLimit == 2

(* ------------------------- std::string helpers ------------------------- *)

\* modulus of size_t arithmetic (scaled down from 2^64; every string of the
\* model is far shorter, so the wrap-arounds are the ones of the source)
SizeMod == 65536

\* std::string::npos, size_t(-1)
NPOS == SizeMod - 1

\* size_t addition and subtraction
SizeAdd(a, b) == (a + b) % SizeMod

SizeSub(a, b) == (a - b + SizeMod) % SizeMod

\* the characters that occur in the modelled files and patterns
Alphabet == {" ", "(", ".", "0", "1", "2", ";", "a", "b"}

\* character codes: the order std::string::compare (and so std::map) uses
Ord(c) ==
  CASE c = " " -> 32
    [] c = "(" -> 40
    [] c = "." -> 46
    [] c = "0" -> 48
    [] c = "1" -> 49
    [] c = "2" -> 50
    [] c = ";" -> 59
    [] c = "a" -> 97
    [] c = "b" -> 98

\* s < t as std::less<std::string> decides it (lexicographic by code)
RECURSIVE StringLess(_, _)
StringLess(s, t) ==
  IF t = <<>> THEN FALSE
  ELSE IF s = <<>> THEN TRUE
  ELSE IF Ord(Head(s)) # Ord(Head(t)) THEN Ord(Head(s)) < Ord(Head(t))
  ELSE StringLess(Tail(s), Tail(t))

\* s.rfind(c, pos): the largest index i <= pos with s[i] = c, else npos
RECURSIVE RFindFrom(_, _, _)
RFindFrom(s, c, i) ==
  IF i < 0 THEN NPOS
  ELSE IF s[i + 1] = c THEN i
  ELSE RFindFrom(s, c, i - 1)

rfind(s, c, pos) ==
  IF Len(s) = 0 THEN NPOS
  ELSE RFindFrom(s, c, IF pos < Len(s) - 1 THEN pos ELSE Len(s) - 1)

\* s.find_last_of(c)
find_last_of(s, c) == rfind(s, c, NPOS)

\* s.substr(pos, count) throws std::out_of_range when pos > size()
substr_throws(s, pos) == pos > Len(s)

\* s.substr(pos, count) when it does not throw
substr(s, pos, count) ==
  LET n == IF count < Len(s) - pos THEN count ELSE Len(s) - pos
  IN  SubSeq(s, pos + 1, pos + n)

IsDigit(c) == c \in {"0", "1", "2"}

DigitValue(c) == Ord(c) - 48

\* the digit-accumulating loop of atoi: stops at the first non-digit
RECURSIVE AtoiDigits(_, _)
AtoiDigits(s, acc) ==
  IF s = <<>> \/ ~IsDigit(Head(s)) THEN acc
  ELSE AtoiDigits(Tail(s), 10 * acc + DigitValue(Head(s)))

\* std::atoi: skips leading white space, then reads decimal digits; text
\* that holds no number yields 0 (the alphabet has no sign character)
RECURSIVE atoi(_)
atoi(s) ==
  IF s = <<>> THEN 0
  ELSE IF Head(s) = " " THEN atoi(Tail(s))
  ELSE AtoiDigits(s, 0)

(* ----------------------------- Line Parser ----------------------------- *)

get_lowest_stack(line) ==
  LET location_of_last_semicolon == SizeAdd(find_last_of(line, ";"), 1)
  IN  substr(line, location_of_last_semicolon,
             SizeSub(find_last_of(line, " "), location_of_last_semicolon))

\* get_sample_count throws std::out_of_range from substr(npos) when the
\* line holds no space
get_sample_count_throws(line) == substr_throws(line, find_last_of(line, " "))

get_sample_count(line) ==
  atoi(substr(line, find_last_of(line, " "), NPOS))

(* --------------------------- Stack Aggregator -------------------------- *)

\* A std::map<std::string, std::tuple<size_t, std::vector<std::string>>> is
\* the sequence of its elements <<first, second>> in iteration order, that
\* is sorted by key; second is the tuple <<total, members>>.

\* stack_map.find(key): the position of the element, 0 for end()
RECURSIVE map_find_from(_, _, _)
map_find_from(m, key, i) ==
  IF i > Len(m) THEN 0
  ELSE IF m[i][1] = key THEN i
  ELSE map_find_from(m, key, i + 1)

map_find(m, key) == map_find_from(m, key, 1)

\* the number of elements whose key orders before key (insertion point)
RECURSIVE map_lower_bound(_, _, _)
map_lower_bound(m, key, i) ==
  IF i > Len(m) \/ ~StringLess(m[i][1], key) THEN i - 1
  ELSE map_lower_bound(m, key, i + 1)

\* map_insert for a container that keeps insertion order
map_insert_unordered(m, key, value) == Append(m, <<key, value>>)

\* stack_map[key] = value for a key that is not yet present
map_insert(m, key, value) ==
  LET n == map_lower_bound(m, key, 1)
  IN  SubSeq(m, 1, n) \o <<(<<key, value>>)>> \o SubSeq(m, n + 1, Len(m))

\* build_stack_map_step with = in place of += on the total
build_stack_map_step_assign(m, line) ==
  LET lowest_stack == get_lowest_stack(line)
      at == map_find(m, lowest_stack)
  IN  IF at # 0
      THEN [m EXCEPT ![at][2] =
              <<get_sample_count(line), Append(m[at][2][2], line)>>]
      ELSE map_insert(m, lowest_stack,
                      <<get_sample_count(line), <<line>>>>)

\* the body of the while loop of build_stack_map for one line that parses
build_stack_map_step(m, line) ==
  LET lowest_stack == get_lowest_stack(line)
      at == map_find(m, lowest_stack)
  IN  IF at # 0
      THEN [m EXCEPT ![at][2] =
              <<m[at][2][1] + get_sample_count(line),
                Append(m[at][2][2], line)>>]
      ELSE map_insert(m, lowest_stack,
                      <<get_sample_count(line), <<line>>>>)

\* build_stack_map on a file read to its end without an exception
RECURSIVE build_stack_map(_)
build_stack_map(lines) ==
  IF lines = <<>> THEN <<>>
  ELSE build_stack_map_step(build_stack_map(SubSeq(lines, 1, Len(lines) - 1)),
                            lines[Len(lines)])

(* -------------------------- Significance Filter ------------------------ *)

\* std::regex expression(regex_string) throws std::regex_error for an
\* unbalanced parenthesis (the alphabet has no closing one)
regex_throws(regex_string) ==
  \E i \in 1..Len(regex_string) : regex_string[i] = "("

\* std::regex_match: the whole of target is matched; the patterns of the
\* model are made of literal characters and the wildcard "."
regex_match(target, regex_string) ==
  /\ Len(target) = Len(regex_string)
  /\ \A i \in 1..Len(target) :
        regex_string[i] = "." \/ regex_string[i] = target[i]

\* std::accumulate over the totals
RECURSIVE total_samples_of(_)
total_samples_of(m) ==
  IF m = <<>> THEN 0 ELSE m[1][2][1] + total_samples_of(Tail(m))

\* above_cutoff with >= in place of >: a group at the cutoff is retained
above_cutoff_ge(count, total_samples, cutoff_percentage) ==
  /\ total_samples # 0
  /\ 100 * cutoff_percentage[2] * count >= cutoff_percentage[1] * total_samples

\* above_cutoff with the comparison turned round: the groups below the
\* cutoff are the retained ones
above_cutoff_inverted(count, total_samples, cutoff_percentage) ==
  /\ total_samples # 0
  /\ 100 * cutoff_percentage[2] * count < cutoff_percentage[1] * total_samples

\* double(count) / double(total_samples) > 0.01 * cutoff_percentage.
\* cutoff_percentage is the pair <<num, den>> standing for num/den with den
\* a power of two, so it is an exact double.  0/0 is NaN and compares
\* false.  Rounding to double is monotone and double(0.01) >= 1/100, so
\* for the two-digit counts of the model the comparison of the doubles
\* agrees with the comparison of the exact quotients.
above_cutoff(count, total_samples, cutoff_percentage) ==
  /\ total_samples # 0
  /\ 100 * cutoff_percentage[2] * count > cutoff_percentage[1] * total_samples

\* the for loop over regexes_to_show for one element: "push" when a pattern
\* matches (break), "skip" when none does, "throw" when a pattern reached
\* before any match fails to compile
RECURSIVE regex_loop(_, _, _)
regex_loop(stack_frame, regexes_to_show, i) ==
  IF i > Len(regexes_to_show) THEN "skip"
  ELSE IF regex_throws(regexes_to_show[i]) THEN "throw"
  ELSE IF regex_match(stack_frame, regexes_to_show[i]) THEN "push"
  ELSE regex_loop(stack_frame, regexes_to_show, i + 1)

\* the lambda of std::for_each applied to one element t
filter_lambda(t, total_samples, cutoff_percentage, regexes_to_show) ==
  IF above_cutoff(t[2][1], total_samples, cutoff_percentage)
  THEN IF regexes_to_show = <<>> THEN "push"
       ELSE regex_loop(get_lowest_stack(t[2][2][1]), regexes_to_show, 1)
  ELSE "skip"

\* std::for_each from element i on; filtered_stacks is the vector so far
RECURSIVE filter_for_each(_, _, _, _, _, _)
filter_for_each(m, i, total_samples, cutoff_percentage, regexes_to_show, filtered_stacks) ==
  IF i > Len(m) THEN [thrown |-> FALSE, value |-> filtered_stacks]
  ELSE LET r == filter_lambda(m[i], total_samples, cutoff_percentage,
                              regexes_to_show)
       IN  IF r = "throw" THEN [thrown |-> TRUE, value |-> <<>>]
           ELSE filter_for_each(m, i + 1, total_samples, cutoff_percentage,
                                regexes_to_show,
                                IF r = "push"
                                THEN Append(filtered_stacks, m[i][2])
                                ELSE filtered_stacks)

filter_stack(m, cutoff_percentage, regexes_to_show) ==
  filter_for_each(m, 1, total_samples_of(m), cutoff_percentage,
                  regexes_to_show, <<>>)

(* ---------------------------- Depth Truncator -------------------------- *)

\* the inner for loop: stack_limit calls of rfind, stopping at npos
RECURSIVE shrink_position(_, _, _, _)
shrink_position(stack, i, current_position, stack_limit) ==
  IF i < stack_limit /\ current_position # NPOS
  THEN shrink_position(stack, i + 1,
                       rfind(stack, ";", SizeSub(current_position, 1)),
                       stack_limit)
  ELSE current_position

shrink_line(stack, stack_limit) ==
  LET current_position == shrink_position(stack, 0, Len(stack), stack_limit)
  IN  IF current_position # NPOS
      THEN substr(stack, current_position + 1, NPOS)
      ELSE stack

\* the loop over the members of one group
RECURSIVE shrink_members(_, _)
shrink_members(members, stack_limit) ==
  IF members = <<>> THEN <<>>
  ELSE <<shrink_line(members[1], stack_limit)>>
         \o shrink_members(Tail(members), stack_limit)

\* the loop over the groups
RECURSIVE shrink_groups(_, _)
shrink_groups(stacks_map, stack_limit) ==
  IF stacks_map = <<>> THEN <<>>
  ELSE <<(<<stacks_map[1][1],
            shrink_members(stacks_map[1][2], stack_limit)>>)>>
         \o shrink_groups(Tail(stacks_map), stack_limit)

shrink_to_stack_limit(stacks_map, stack_limit) ==
  IF stack_limit = 0 THEN stacks_map
  ELSE shrink_groups(stacks_map, stack_limit)

(* --------------------------------- Writer ------------------------------ *)

\* the lines written to out_file, in order
RECURSIVE written_lines(_)
written_lines(stacks) ==
  IF stacks = <<>> THEN <<>>
  ELSE stacks[1][2] \o written_lines(Tail(stacks))

(* ------------------------------- the program --------------------------- *)

VARIABLES
  pc,              \* where main is
  file,            \* the lines of the input file
  args,            \* the parsed command line (po::variables_map)
  nread,           \* lines consumed by std::getline so far
  stack_map,       \* the map build_stack_map fills
  filtered_stacks, \* the vector filter_stack returned
  stacks,          \* the vector shrink_to_stack_limit returned
  out_written,     \* whether out_file was opened and written
  out_file,        \* the lines written to the output file
  outcome,         \* how the run ended
  exit_status      \* the exit status of the process, -1 while it runs

vars == <<pc, file, args, nread, stack_map, filtered_stacks, stacks,
          out_written, out_file, outcome, exit_status>>

\* the lines an input file is made of
LinePool ==
  { <<"a", ";", "b", " ", "1">>,
    <<"b", " ", "1">>,
    <<"a", ";", "a", " ", "2">>,
    <<"b", ";", "a", ";", "a", "b", " ", "1">>,
    <<";", "a", " ", "1">>,
    <<"a", " ", "b">>,
    <<"a", " ", "1", ";", "b">>,
    <<>> }

Files == UNION { [1..n -> LinePool] : n \in 0..MaxLines }

\* the values of --cutoff-percentage: 0.5 (the default) and 50
Cutoffs == { <<1, 2>>, <<50, 1>> }

\* the values of --show
ShowSets ==
  { <<>>,
    << <<"a", ".">> >>,
    << <<"b">>, <<"(">> >>,
    << <<"(">> >> }

\* the option values of main's options_description
DefaultArgs ==
  [help |-> FALSE, output |-> FALSE, input_file |-> FALSE,
   cutoff_percentage |-> <<1, 2>>, stack_limit |-> 0, show |-> <<>>]

\* the command lines
CommandLines ==
  { [DefaultArgs EXCEPT !.help = TRUE],
    [DefaultArgs EXCEPT !.input_file = TRUE],
    [DefaultArgs EXCEPT !.output = TRUE] }
  \cup
  { [help |-> FALSE, output |-> TRUE, input_file |-> TRUE,
     cutoff_percentage |-> c, stack_limit |-> l, show |-> s] :
       c \in Cutoffs, l \in 0..MaxStackLimit, s \in ShowSets }

Init ==
  /\ pc = "start"
  /\ file \in Files
  /\ args = DefaultArgs
  /\ nread = 0
  /\ stack_map = <<>>
  /\ filtered_stacks = <<>>
  /\ stacks = <<>>
  /\ out_written = FALSE
  /\ out_file = <<>>
  /\ outcome = "running"
  /\ exit_status = -1

\* std::exit(status) or return status from main
Exit(status, how) ==
  /\ pc' = "exit"
  /\ exit_status' = status
  /\ outcome' = how

\* main, lines 179-226: parse the command line, --help, missing --output
ParseArgs ==
  /\ pc = "start"
  /\ \E a \in CommandLines :
       /\ args' = a
       /\ IF a.help THEN Exit(0, "help")
          ELSE IF ~a.output THEN Exit(1, "missing_output")
          ELSE /\ pc' = "call"
               /\ UNCHANGED <<exit_status, outcome>>
  /\ UNCHANGED <<file, nread, stack_map, filtered_stacks, stacks,
                 out_written, out_file>>

\* main, line 230: args["input-file"].as<std::string>() without the option
\* throws boost::bad_any_cast, a std::exception
MissingInputFile ==
  /\ pc = "call"
  /\ ~args.input_file
  /\ pc' = "catch_std"
  /\ outcome' = "bad_any_cast"
  /\ UNCHANGED <<file, args, nread, stack_map, filtered_stacks, stacks,
                 out_written, out_file, exit_status>>

\* build_stack_map, lines 61-68: open the input file
OpenInput ==
  /\ pc = "call"
  /\ args.input_file
  /\ \E is_open \in BOOLEAN :
       IF is_open
       THEN /\ pc' = "read"
            /\ UNCHANGED <<exit_status, outcome>>
       ELSE Exit(1, "unreadable_input")
  /\ UNCHANGED <<file, args, nread, stack_map, filtered_stacks, stacks,
                 out_written, out_file>>

\* build_stack_map, lines 69-79: one iteration of the while loop
ReadLine ==
  /\ pc = "read"
  /\ nread < Len(file)
  /\ LET line == file[nread + 1]
     IN  IF get_sample_count_throws(line)
         THEN /\ pc' = "catch_std"
              /\ outcome' = "out_of_range"
              /\ UNCHANGED <<nread, stack_map>>
         ELSE /\ stack_map' = build_stack_map_step(stack_map, line)
              /\ nread' = nread + 1
              /\ UNCHANGED <<pc, outcome>>
  /\ UNCHANGED <<file, args, filtered_stacks, stacks, out_written, out_file,
                 exit_status>>

\* build_stack_map, lines 80-81, then filter_stack, lines 91-128
FilterStack ==
  /\ pc = "read"
  /\ nread = Len(file)
  /\ LET r == filter_stack(stack_map, args.cutoff_percentage, args.show)
     IN  IF r.thrown
         THEN /\ pc' = "catch_std"
              /\ outcome' = "regex_error"
              /\ UNCHANGED filtered_stacks
         ELSE /\ pc' = "shrink"
              /\ filtered_stacks' = r.value
              /\ UNCHANGED outcome
  /\ UNCHANGED <<file, args, nread, stack_map, stacks, out_written, out_file,
                 exit_status>>

\* shrink_to_stack_limit, lines 136-156
ShrinkToStackLimit ==
  /\ pc = "shrink"
  /\ stacks' = shrink_to_stack_limit(filtered_stacks, args.stack_limit)
  /\ pc' = "write"
  /\ UNCHANGED <<file, args, nread, stack_map, filtered_stacks, out_written,
                 out_file, outcome, exit_status>>

\* write_filtered_stack_to_file, lines 161-175, then return 0, line 242
WriteFilteredStackToFile ==
  /\ pc = "write"
  /\ \E is_open \in BOOLEAN :
       IF is_open
       THEN /\ out_written' = TRUE
            /\ out_file' = written_lines(stacks)
            /\ Exit(0, "success")
       ELSE /\ Exit(1, "unwritable_output")
            /\ UNCHANGED <<out_written, out_file>>
  /\ UNCHANGED <<file, args, nread, stack_map, filtered_stacks, stacks>>

\* main, lines 236-238: catch (std::exception&) returns 1
CatchStdException ==
  /\ pc = "catch_std"
  /\ pc' = "exit"
  /\ exit_status' = 1
  /\ UNCHANGED <<file, args, nread, stack_map, filtered_stacks, stacks,
                 out_written, out_file, outcome>>

\* an exception that is not a std::exception leaves the try block
ThrowUnknown ==
  /\ pc \in {"call", "read", "shrink", "write"}
  /\ pc' = "catch_unknown"
  /\ outcome' = "unknown_exception"
  /\ UNCHANGED <<file, args, nread, stack_map, filtered_stacks, stacks,
                 out_written, out_file, exit_status>>

\* main, lines 239-242: catch (...) prints and falls through to return 0
CatchUnknown ==
  /\ pc = "catch_unknown"
  /\ pc' = "exit"
  /\ exit_status' = 0
  /\ UNCHANGED <<file, args, nread, stack_map, filtered_stacks, stacks,
                 out_written, out_file, outcome>>

Next ==
  \/ ParseArgs
  \/ MissingInputFile
  \/ OpenInput
  \/ ReadLine
  \/ FilterStack
  \/ ShrinkToStackLimit
  \/ WriteFilteredStackToFile
  \/ CatchStdException
  \/ ThrowUnknown
  \/ CatchUnknown

Spec == Init /\ [][Next]_vars

TypeOK ==
  /\ pc \in {"start", "call", "read", "shrink", "write", "catch_std",
             "catch_unknown", "exit"}
  /\ exit_status \in {-1, 0, 1}
  /\ nread \in 0..Len(file)

(* ------------------------- helpers of the properties ------------------- *)

\* the positions of seq that hold value
PositionsOf(seq, value) == { j \in 1..Len(seq) : seq[j] = value }

\* some valid pattern of show matches the whole of name
FullyMatched(name, show) ==
  \E i \in 1..Len(show) : ~regex_throws(show[i]) /\ regex_match(name, show[i])

\* the sum of the sample counts of the lines of seq
RECURSIVE SumOfCounts(_)
SumOfCounts(seq) ==
  IF seq = <<>> THEN 0
  ELSE get_sample_count(seq[1]) + SumOfCounts(Tail(seq))

\* the sum of the totals of the groups in positions 1..n of m
RECURSIVE SumOfTotals(_, _)
SumOfTotals(m, n) ==
  IF n = 0 THEN 0 ELSE m[n][2][1] + SumOfTotals(m, n - 1)

\* the filter stage returned normally and its result is still at hand
FilterReturned == pc \in {"shrink", "write"} \/ outcome = "success"

(* --------------------------------- C1 ---------------------------------- *)

\* group g of the map is retained by the claim's rule
C1_ShouldRetain(g) ==
  /\ 100 * args.cutoff_percentage[2] * stack_map[g][2][1]
       > args.cutoff_percentage[1] * SumOfTotals(stack_map, Len(stack_map))
  /\ args.show = <<>> \/ FullyMatched(stack_map[g][1], args.show)

\* C1: when filter_stack returns on a map with a non-zero total, a group is
\* in the result if and only if its share of the total is strictly greater
\* than cutoff_percentage / 100 and (the pattern set is empty or its leaf
\* name is fully matched by a pattern); it is there at most once, and the
\* result holds nothing but groups of the map.
C1_RetainedIffAboveCutoffAndMatched ==
  (FilterReturned /\ SumOfTotals(stack_map, Len(stack_map)) # 0) =>
    /\ \A g \in 1..Len(stack_map) :
         Cardinality(PositionsOf(filtered_stacks, stack_map[g][2]))
           = IF C1_ShouldRetain(g) THEN 1 ELSE 0
    /\ \A j \in 1..Len(filtered_stacks) :
         \E g \in 1..Len(stack_map) : stack_map[g][2] = filtered_stacks[j]

\* a group whose share equals the cutoff exactly (half of the samples at
\* cutoff 50) was dropped while the filter ran with patterns or without
C1_Witness ==
  /\ pc = "shrink"
  /\ args.cutoff_percentage = <<50, 1>>
  /\ \E g \in 1..Len(stack_map) :
       /\ stack_map[g][2][1] > 0
       /\ 2 * stack_map[g][2][1] = SumOfTotals(stack_map, Len(stack_map))
       /\ PositionsOf(filtered_stacks, stack_map[g][2]) = {}

(* --------------------------------- C3 ---------------------------------- *)

\* the lines among the first n of the file whose leaf frame is key
RECURSIVE LinesWithLeaf(_, _)
LinesWithLeaf(n, key) ==
  IF n = 0 THEN <<>>
  ELSE IF get_lowest_stack(file[n]) = key
       THEN Append(LinesWithLeaf(n - 1, key), file[n])
       ELSE LinesWithLeaf(n - 1, key)

\* C3: after any prefix of the input lines the map has exactly one entry
\* per distinct leaf frame name of the prefix, the members of an entry are
\* the lines of the prefix with that leaf, in file order, and its total is
\* the sum of their sample counts.
C3_MapAggregatesPrefix ==
  /\ { stack_map[g][1] : g \in 1..Len(stack_map) }
       = { get_lowest_stack(file[i]) : i \in 1..nread }
  /\ \A g, h \in 1..Len(stack_map) :
       stack_map[g][1] = stack_map[h][1] => g = h
  /\ \A g \in 1..Len(stack_map) :
       /\ stack_map[g][2][2] = LinesWithLeaf(nread, stack_map[g][1])
       /\ stack_map[g][2][1] = SumOfCounts(stack_map[g][2][2])

\* three lines were read into two groups, one of them with two members
C3_Witness ==
  /\ nread = 3
  /\ Len(stack_map) = 2
  /\ \E g \in 1..Len(stack_map) :
       /\ Len(stack_map[g][2][2]) = 2
       /\ stack_map[g][2][1] = 2

(* --------------------------------- C7 ---------------------------------- *)

\* C7: aggregating the lines the filter stage retained and filtering them
\* again with the same cutoff and patterns returns the same groups.
C7_FilterIdempotent ==
  FilterReturned =>
    LET again == filter_stack(build_stack_map(written_lines(filtered_stacks)),
                              args.cutoff_percentage, args.show)
    IN  /\ ~again.thrown
        /\ again.value = filtered_stacks

\* a group with samples was dropped and another one retained, so the
\* second pass divides by a smaller total
C7_Witness ==
  /\ pc = "shrink"
  /\ filtered_stacks # <<>>
  /\ \E g \in 1..Len(stack_map) :
       /\ stack_map[g][2][1] > 0
       /\ PositionsOf(filtered_stacks, stack_map[g][2]) = {}

(* --------------------------------- C8 ---------------------------------- *)

\* line j of the file is written before line i
C8_Before(j, i) ==
  \/ StringLess(get_lowest_stack(file[j]), get_lowest_stack(file[i]))
  \/ /\ get_lowest_stack(file[j]) = get_lowest_stack(file[i])
     /\ j < i

\* what shrink_to_stack_limit makes of one line
C8_Cut(line) ==
  IF args.stack_limit = 0 THEN line ELSE shrink_line(line, args.stack_limit)

\* C8: the output is made of whole groups: for some set S of input lines
\* that holds, with a line, every line of the same leaf, the output is the
\* lines of S (each cut to the stack limit), the groups in lexicographic
\* order of the leaf name and the lines of a group in file order.
C8_OutputOrder ==
  outcome = "success" =>
    \E S \in SUBSET (1..Len(file)) :
      /\ \A i \in S : \A j \in 1..Len(file) :
           get_lowest_stack(file[j]) = get_lowest_stack(file[i]) => j \in S
      /\ Len(out_file) = Cardinality(S)
      /\ \A i \in S :
           out_file[Cardinality({ j \in S : C8_Before(j, i) }) + 1]
             = C8_Cut(file[i])

\* three lines were written, in an order that is not the file's, and a
\* group of two lines is among them
C8_Witness ==
  /\ outcome = "success"
  /\ args.stack_limit = 0
  /\ Len(out_file) = 3
  /\ out_file # file
  /\ \E g \in 1..Len(stacks) : Len(stacks[g][2]) = 2

(* --------------------------------- C2 ---------------------------------- *)

\* the number of delimiters in line
C2_Delimiters(line) == Cardinality(PositionsOf(line, ";"))

\* the position (1-based) of the n-th delimiter of line from the right
C2_NthFromRight(line, n) ==
  CHOOSE p \in PositionsOf(line, ";") :
    Cardinality({ q \in PositionsOf(line, ";") : q >= p }) = n

\* the line the claim says shrink_to_stack_limit returns
C2_Expected(line, stack_limit) ==
  IF stack_limit = 0 \/ C2_Delimiters(line) < stack_limit THEN line
  ELSE SubSeq(line, C2_NthFromRight(line, stack_limit) + 1, Len(line))

\* C2: shrink_to_stack_limit leaves a line unchanged when stack_limit is 0
\* or the line has fewer than stack_limit delimiters, and otherwise
\* returns the text after the stack_limit-th delimiter from the right.
C2_ShrinkKeepsLeafMostFrames ==
  pc = "write" =>
    /\ Len(stacks) = Len(filtered_stacks)
    /\ \A g \in 1..Len(stacks) :
         /\ Len(stacks[g][2]) = Len(filtered_stacks[g][2])
         /\ \A k \in 1..Len(stacks[g][2]) :
              stacks[g][2][k]
                = C2_Expected(filtered_stacks[g][2][k], args.stack_limit)

(* --------------------------------- C4 ---------------------------------- *)

\* C4: a run whose total_samples is zero (empty input, or every count
\* zero) does not reach the filter's result and the writer: it ends in an
\* error.
C4_ZeroTotalIsError ==
  (FilterReturned /\ SumOfTotals(stack_map, Len(stack_map)) = 0) =>
    /\ ~out_written
    /\ exit_status = 1

(* --------------------------------- C5 ---------------------------------- *)

\* C5: with a pattern in --show that does not compile, the filter never
\* returns normally and no output is written.
C5_MalformedPatternAborts ==
  (\E i \in 1..Len(args.show) : regex_throws(args.show[i])) =>
    /\ ~FilterReturned
    /\ ~out_written

(* --------------------------------- C6 ---------------------------------- *)

\* C6: the exit status is 0 exactly for successful completion and --help;
\* every fatal error, the exception of unknown type included, exits with 1.
C6_ExitStatusOneOnFatalError ==
  pc = "exit" =>
    /\ exit_status \in {0, 1}
    /\ exit_status = 0 <=> outcome \in {"success", "help"}

(* --------------------------------- C9 ---------------------------------- *)

\* the text after the last space of line is an integer
C9_HasIntegerCount(line) ==
  LET sp == PositionsOf(line, " ")
  IN  /\ sp # {}
      /\ LET last == CHOOSE p \in sp : \A q \in sp : q <= p
         IN  /\ last < Len(line)
             /\ \A k \in (last + 1)..Len(line) : IsDigit(line[k])

\* C9: a line whose count does not parse as an integer never fails the
\* run: the loop does not stop at it with an exception, and once it is
\* read it is a member of its leaf group and has added zero to the total.
C9_UnparsableCountIsZero ==
  \A i \in 1..Len(file) :
    ~C9_HasIntegerCount(file[i]) =>
      /\ ~(outcome = "out_of_range" /\ nread = i - 1)
      /\ nread >= i =>
           /\ get_sample_count(file[i]) = 0
           /\ \E g \in 1..Len(stack_map) :
                /\ stack_map[g][1] = get_lowest_stack(file[i])
                /\ PositionsOf(stack_map[g][2][2], file[i]) # {}

(* --------------------------------- C10 --------------------------------- *)

\* short is a suffix of long
C10_IsSuffix(short, long) ==
  /\ Len(short) <= Len(long)
  /\ short = SubSeq(long, Len(long) - Len(short) + 1, Len(long))

\* C10: truncation keeps the groups, their totals and the number of their
\* lines; every line it returns is a suffix of the line it was given, with
\* the same leaf name and the same sample count.
C10_ShrinkOnlyRemovesOuterFrames ==
  pc = "write" =>
    /\ Len(stacks) = Len(filtered_stacks)
    /\ \A g \in 1..Len(stacks) :
         /\ stacks[g][1] = filtered_stacks[g][1]
         /\ Len(stacks[g][2]) = Len(filtered_stacks[g][2])
         /\ \A k \in 1..Len(stacks[g][2]) :
              LET before == filtered_stacks[g][2][k]
                  after == stacks[g][2][k]
              IN  /\ C10_IsSuffix(after, before)
                  /\ get_lowest_stack(after) = get_lowest_stack(before)
                  /\ ~get_sample_count_throws(after)
                  /\ get_sample_count(after) = get_sample_count(before)

=============================================================================
